---- MODULE Spec2Model ----
(***************************************************************************)
(* Transcript Anonymizer (src/app.py): one Streamlit script run, from the  *)
(* uploaded file to the redacted downloads and the Label Studio export.    *)
(*                                                                         *)
(* A str is a sequence of one-character strings.  Offsets are 0-based and  *)
(* half-open as in Python; row labels are the 0-based RangeIndex labels    *)
(* pandas gives a sheet.  Scores are in hundredths (0.85 is 85).           *)
(***************************************************************************)
EXTENDS Integers, Sequences, FiniteSets, TLC

VARIABLES
    pc,                 \* position of the script run
    file_type,          \* "none" | "txt" | "xlsx"                    (line 47)
    df,                 \* the selected column: a sequence of cells   (line 60)
    redaction_text,     \* replacement text widget                    (line 29)
    selected_entities,  \* multiselect widget                         (line 37)
    text,               \* analysed text                              (lines 56, 74)
    orig_index_nonnull, \* labels of the non-null rows                (line 72)
    candidates,         \* detections inside analyzer.analyze, before its score cut
    raw_results,        \* what analyzer.analyze returned             (line 79)
    results,            \* after the EXCLUDE_WORDS loop               (lines 92-97)
    redacted,           \* anonymizer output                          (line 104)
    shown,              \* the output elements rendered so far
    new_col,            \* df_redacted[<column>_REDACTED]             (lines 162-163)
    analyzer_calls,     \* the analyzer calls made so far: text and answer
    row_iter,           \* rows the export loop has visited          (line 219)
    ls_tasks,           \* Label Studio tasks                         (line 214)
    error               \* "" or the exception that ended the run

vars == <<pc, file_type, df, redaction_text, selected_entities, text,
          orig_index_nonnull, candidates, raw_results, results, redacted,
          shown, new_col, analyzer_calls, row_iter, ls_tasks, error>>

(***************************************************************************)
(* Bounds of the model.                                                    *)
(***************************************************************************)
MaxRows == 2    \* rows of an uploaded sheet
MaxDet == 2     \* detections one analyzer call reports

(***************************************************************************)
(* Characters and Python str operations.                                   *)
(***************************************************************************)
NL == "\n"
SP == " "

\* str.lower(), per character
LowerChar(c) ==
    CASE c = "U" -> "u"
      [] c = "S" -> "s"
      [] c = "J" -> "j"
      [] c = "R" -> "r"
      [] c = "E" -> "e"
      [] c = "D" -> "d"
      [] c = "A" -> "a"
      [] c = "C" -> "c"
      [] c = "T" -> "t"
      [] OTHER -> c

lower(s) == [i \in 1..Len(s) |-> LowerChar(s[i])]

\* characters str.strip() removes
IsSpace(c) == c \in {SP, NL}

RECURSIVE lstrip(_)
lstrip(s) == IF s # <<>> /\ IsSpace(Head(s)) THEN lstrip(Tail(s)) ELSE s

RECURSIVE rstrip(_)
rstrip(s) ==
    IF s # <<>> /\ IsSpace(s[Len(s)]) THEN rstrip(SubSeq(s, 1, Len(s) - 1)) ELSE s

strip(s) == lstrip(rstrip(s))

\* s[a:b] for 0 <= a, 0 <= b (Python clamps the bounds, never raises)
Slice(s, a, b) ==
    LET lo == IF a > Len(s) THEN Len(s) ELSE a
        hi == IF b > Len(s) THEN Len(s) ELSE b
    IN  IF hi <= lo THEN <<>> ELSE SubSeq(s, lo + 1, hi)

\* sep.join(parts) with sep = "\n"
RECURSIVE JoinLines(_)
JoinLines(parts) ==
    IF parts = <<>> THEN <<>>
    ELSE IF Len(parts) = 1 THEN parts[1]
    ELSE parts[1] \o <<NL>> \o JoinLines(Tail(parts))

\* s.split("\n"): always at least one part
RECURSIVE SplitLines(_)
SplitLines(s) ==
    IF \A i \in 1..Len(s) : s[i] # NL THEN <<s>>
    ELSE LET k == CHOOSE i \in 1..Len(s) :
                      s[i] = NL /\ \A j \in 1..(i - 1) : s[j] # NL
         IN  <<SubSeq(s, 1, k - 1)>> \o SplitLines(SubSeq(s, k + 1, Len(s)))

\* s.count(sub): non-overlapping occurrences, leftmost first
RECURSIVE Count(_, _)
Count(s, sub) ==
    IF sub = <<>> THEN Len(s) + 1
    ELSE IF Len(s) < Len(sub) THEN 0
    ELSE IF SubSeq(s, 1, Len(sub)) = sub
         THEN 1 + Count(SubSeq(s, Len(sub) + 1, Len(s)), sub)
         ELSE Count(Tail(s), sub)

Chars(s) == {s[i] : i \in 1..Len(s)}

(***************************************************************************)
(* Inputs: what the widgets and the uploaded file can hold.                *)
(***************************************************************************)
\* st.text_input default (line 29)
DefaultRedactionText == <<"*", "*", "R", "E", "D", "A", "C", "T", "E", "D", "*", "*">>

\* values typed into the single-line replacement box
ReplacementPool == {DefaultRedactionText, <<"J">>, <<>>}

\* multiselect states: nothing, one type, the default (line 40)
SelectedPool == {{}, {"LOCATION"}, {"PERSON", "LOCATION"}}

\* a cell read by pd.read_excel: NaN for an empty cell, else its str
NaN == [isna |-> TRUE, val |-> <<>>]
Cell(s) == [isna |-> FALSE, val |-> s]

CellPool == {NaN, Cell(<<"J">>), Cell(<<SP>>), Cell(<<"U", "s">>), Cell(<<"J", NL>>)}

TxtPool == {<<>>, <<"U", "s">>, <<SP, "U", "s">>, <<"J", SP, "J">>}

RowSeqs == UNION {[1..n -> CellPool] : n \in 0..MaxRows}

Uploads ==
    {[kind |-> "txt", content |-> t, cells |-> <<>>] : t \in TxtPool}
    \cup {[kind |-> "xlsx", content |-> <<>>, cells |-> c] : c \in RowSeqs}

(***************************************************************************)
(* Reading the sheet (lines 69-74).                                        *)
(***************************************************************************)
\* df.index[df[column_choice].notna()]
RECURSIVE NonNullIndex(_, _)
NonNullIndex(cells, label) ==
    IF cells = <<>> THEN <<>>
    ELSE (IF Head(cells).isna THEN <<>> ELSE <<label>>)
         \o NonNullIndex(Tail(cells), label + 1)

\* df.loc[orig_index_nonnull, column_choice].astype(str)
NonNullSeries(cells, index) == [i \in 1..Len(index) |-> cells[index[i] + 1].val]

\* "\n".join(...)
JoinRows(cells) == JoinLines(NonNullSeries(cells, NonNullIndex(cells, 0)))

(***************************************************************************)
(* The entity detector (presidio AnalyzerEngine), an opaque collaborator:  *)
(* any duplicate-free sequence of in-bounds detections of the requested    *)
(* types, of which analyze() returns those at or above score_threshold.    *)
(***************************************************************************)
score_threshold == 85

\* type and score of the detections the detector proposes
DetectorKinds ==
    { [entity_type |-> "PERSON", score |-> 50],
      [entity_type |-> "PERSON", score |-> 90],
      [entity_type |-> "LOCATION", score |-> 65] }

Detection(k, s, e) ==
    [entity_type |-> k.entity_type, start |-> s, end |-> e, score |-> k.score]

DetectorCandidates(t, entities) ==
    UNION { { Detection(k, s, e) :
                k \in {x \in DetectorKinds : x.entity_type \in entities},
                e \in (s + 1)..Len(t) } : s \in 0..(Len(t) - 1) }

IsInjective(q) == \A i, j \in 1..Len(q) : i # j => q[i] # q[j]

DetectorOutputs(t, entities) ==
    LET C == DetectorCandidates(t, entities)
    IN  {q \in UNION {[1..n -> C] : n \in 0..MaxDet} : IsInjective(q)}

\* AnalyzerEngine: results below score_threshold are removed
RemoveLowScoresPerType(rs) ==
    SelectSeq(rs, LAMBDA d :
        d.score >= (IF d.entity_type = "LOCATION" THEN 60 ELSE score_threshold))

RemoveLowScores(rs) == SelectSeq(rs, LAMBDA d : d.score >= score_threshold)

(***************************************************************************)
(* The exclusion loop (lines 86-97 and 187-192).                           *)
(***************************************************************************)
EXCLUDE_WORDS ==
    { <<"a", "m", "e", "r", "i", "c", "a">>,
      <<"u", "n", "i", "t", "e", "d", " ", "s", "t", "a", "t", "e", "s">>,
      <<"u", "s">>,
      <<"u", "s", "a">>,
      <<"u", ".", "s", ".">>,
      <<"t", "h", "e", " ", "u", "n", "i", "t", "e", "d", " ", "s", "t", "a", "t", "e", "s">>,
      <<"t", "h", "e", " ", "u", "s">>,
      <<"t", "h", "e", " ", "u", "s", "a">>,
      <<"t", "h", "e", " ", "u", ".", " ", "s", ".">> }

\* entity_text = text[r.start:r.end].lower(); entity_text in EXCLUDE_WORDS
IsExcludedNoLower(t, r) == Slice(t, r.start, r.end) \in EXCLUDE_WORDS

IsExcluded(t, r) == lower(Slice(t, r.start, r.end)) \in EXCLUDE_WORDS

FilterExcluded(t, rs) == SelectSeq(rs, LAMBDA r : ~IsExcluded(t, r))


(***************************************************************************)
(* anonymizer.anonymize with the "replace" operator (lines 104-110):       *)
(* presidio's AnonymizerEngine resolves conflicts, merges same-type        *)
(* neighbours separated by spaces, then replaces from the right.           *)
(***************************************************************************)
Min(a, b) == IF a < b THEN a ELSE b
Max(a, b) == IF a > b THEN a ELSE b

\* RecognizerResult.intersects > 0
Intersects(a, b) == Min(a.end, b.end) - Max(a.start, b.start) > 0

\* RecognizerResult.has_conflict
HasConflict(r, other) ==
    IF r.start = other.start /\ r.end = other.end
    THEN r.score <= other.score
    ELSE other.start <= r.start /\ other.end >= r.end

\* first loop of conflict removal: a result intersecting another of its
\* type is folded into that other one (which is updated in place)
RECURSIVE MergeSameType(_, _)
MergeSameType(remaining, kept) ==
    IF remaining = <<>> THEN kept
    ELSE LET r == Head(remaining)
             others == Tail(remaining) \o kept
             hits == {j \in 1..Len(others) :
                         others[j].entity_type = r.entity_type
                         /\ Intersects(r, others[j])}
         IN  IF hits = {} THEN MergeSameType(Tail(remaining), Append(kept, r))
             ELSE LET j == CHOOSE x \in hits : \A y \in hits : x <= y
                      o == others[j]
                      u == [o EXCEPT !.start = Min(r.start, o.start),
                                     !.end = Max(r.end, o.end),
                                     !.score = Max(r.score, o.score)]
                      upd == [others EXCEPT ![j] = u]
                      n == Len(remaining) - 1
                  IN  MergeSameType(SubSeq(upd, 1, n), SubSeq(upd, n + 1, Len(upd)))

\* second loop: a result contained in another, or equal to one that scores
\* at least as high, is dropped
RECURSIVE DropConflicted(_, _)
DropConflicted(remaining, kept) ==
    IF remaining = <<>> THEN kept
    ELSE LET r == Head(remaining)
             others == Tail(remaining) \o kept
         IN  IF \E j \in 1..Len(others) : HasConflict(r, others[j])
             THEN DropConflicted(Tail(remaining), kept)
             ELSE DropConflicted(Tail(remaining), Append(kept, r))

RemoveConflicts(rs) == DropConflicted(MergeSameType(rs, <<>>), <<>>)

\* re.search(r"^( )+$", s): spaces only, and $ also matches before a final newline
OnlySpaces(s) ==
    LET body == IF s # <<>> /\ s[Len(s)] = NL THEN SubSeq(s, 1, Len(s) - 1) ELSE s
    IN  body # <<>> /\ \A i \in 1..Len(body) : body[i] = SP

\* list.remove(x): the first equal element goes
RECURSIVE RemoveFirst(_, _)
RemoveFirst(q, x) ==
    IF q = <<>> THEN <<>>
    ELSE IF Head(q) = x THEN Tail(q)
    ELSE <<Head(q)>> \o RemoveFirst(Tail(q), x)

\* a result of the type of its predecessor in the list, with only spaces
\* between them, swallows that predecessor
RECURSIVE MergeWhitespace(_, _, _, _)
MergeWhitespace(t, rs, merged, prev) ==
    IF rs = <<>> THEN merged
    ELSE LET r == Head(rs)
             glue == prev # <<>>
                     /\ prev[1].entity_type = r.entity_type
                     /\ OnlySpaces(Slice(t, prev[1].end, r.start))
             r2 == IF glue THEN [r EXCEPT !.start = prev[1].start] ELSE r
             m2 == IF glue THEN RemoveFirst(merged, prev[1]) ELSE merged
         IN  MergeWhitespace(t, Tail(rs), Append(m2, r2), <<r2>>)

\* sorted(pii_entities, reverse=True): by start, then end, descending
RECURSIVE SortDescending(_)
SortDescending(rs) ==
    IF rs = <<>> THEN <<>>
    ELSE LET After(a, b) == a.start > b.start \/ (a.start = b.start /\ a.end >= b.end)
             k == CHOOSE i \in 1..Len(rs) :
                      /\ \A j \in 1..Len(rs) : After(rs[i], rs[j])
                      /\ \A j \in 1..(i - 1) : ~After(rs[j], rs[i])
         IN  <<rs[k]>> \o SortDescending(SubSeq(rs, 1, k - 1) \o SubSeq(rs, k + 1, Len(rs)))

\* TextReplaceBuilder.replace_text_get_insertion_index, right to left
RECURSIVE ReplaceAll(_, _, _, _)
ReplaceAll(out, ents, last, repl) ==
    IF ents = <<>> THEN out
    ELSE LET e == Head(ents)
             end_of_text == Min(e.end, last)
         IN  ReplaceAll(Slice(out, 0, e.start) \o repl \o Slice(out, end_of_text, Len(out)),
                        Tail(ents), e.start, repl)

\* the entities the anonymizer finally replaces
OperatedEntities(t, rs) == MergeWhitespace(t, RemoveConflicts(rs), <<>>, <<>>)

AnonymizeLeftToRight(t, rs, repl) ==
    ReplaceAll(t, OperatedEntities(t, rs), Len(t), repl)

Anonymize(t, rs, repl) ==
    ReplaceAll(t, SortDescending(OperatedEntities(t, rs)), Len(t), repl)

(***************************************************************************)
(* Splitting the redacted text back onto the rows (lines 151-163).         *)
(***************************************************************************)
\* redacted_rows[:len(orig_index_nonnull)]
Truncate(parts, n) == SubSeq(parts, 1, Min(Len(parts), n))

\* df.loc[index, new_col] = values raises ValueError unless the lengths agree
AssignRaises(index, values) == Len(values) # Len(index)

\* the values land on the first rows, whatever their labels
AssignRowsByPosition(nrows, index, values) ==
    [row \in 1..nrows |-> IF row <= Len(values) THEN values[row] ELSE <<>>]

\* df_redacted[new_col] = ""; df_redacted.loc[index, new_col] = values
AssignRows(nrows, index, values) ==
    [row \in 1..nrows |->
        IF \E i \in 1..Len(index) : index[i] = row - 1
        THEN values[CHOOSE i \in 1..Len(index) : index[i] = row - 1]
        ELSE <<>>]


(***************************************************************************)
(* The Label Studio export (lines 179-253).                                *)
(***************************************************************************)
\* the detector is deterministic: a text analysed before gets the same answer
AnalyzerAnswers(t, entities, calls) ==
    IF \E c \in calls : c.text = t
    THEN {c.out : c \in {x \in calls : x.text = t}}
    ELSE {RemoveLowScores(q) : q \in DetectorOutputs(t, entities)}

\* lines 194-211: one span record per kept detection
LsResults(segment, seg_filtered) ==
    [i \in 1..Len(seg_filtered) |->
        [start |-> seg_filtered[i].start,
         end |-> seg_filtered[i].end,
         text |-> Slice(segment, seg_filtered[i].start, seg_filtered[i].end),
         label |-> seg_filtered[i].entity_type,
         score |-> seg_filtered[i].score]]

\* _presidio_to_ls_results, given the analyzer's answer
PresidioToLsResults(segment, seg_raw) ==
    LsResults(segment, FilterExcluded(segment, seg_raw))

\* line 220: rows that are blank after strip() get no task
RowHasTaskAlways(row_text) == TRUE

RowHasTask(row_text) == row_text # <<>> /\ strip(row_text) # <<>>

\* row_index of the single task of a plain-text upload (it has none)
NoRow == -1

(***************************************************************************)
(* The script run.                                                         *)
(***************************************************************************)
Init ==
    /\ pc = "idle"
    /\ file_type = "none"
    /\ df = <<>>
    /\ redaction_text = DefaultRedactionText
    /\ selected_entities = {"PERSON", "LOCATION"}
    /\ text = <<>>
    /\ orig_index_nonnull = <<>>
    /\ candidates = <<>>
    /\ raw_results = <<>>
    /\ results = <<>>
    /\ redacted = <<>>
    /\ shown = {}
    /\ new_col = <<>>
    /\ analyzer_calls = {}
    /\ row_iter = 0
    /\ ls_tasks = <<>>
    /\ error = ""

\* lines 29-74: the widgets are read and the uploaded file becomes text
ReadFile ==
    /\ pc = "idle"
    /\ \E u \in Uploads, repl \in ReplacementPool, sel \in SelectedPool :
        /\ redaction_text' = repl
        /\ selected_entities' = sel
        /\ file_type' = u.kind
        /\ df' = u.cells
        /\ orig_index_nonnull' = IF u.kind = "xlsx" THEN NonNullIndex(u.cells, 0) ELSE <<>>
        /\ text' = IF u.kind = "xlsx" THEN JoinRows(u.cells) ELSE u.content
    /\ pc' = "read"
    /\ UNCHANGED <<candidates, raw_results, results, redacted, shown, new_col,
                   analyzer_calls, row_iter, ls_tasks, error>>

\* line 77 false, line 255 false: nothing to process
NothingToProcess ==
    /\ pc = "read"
    /\ text = <<>>
    /\ pc' = "done"
    /\ UNCHANGED <<file_type, df, redaction_text, selected_entities, text,
                   orig_index_nonnull, candidates, raw_results, results, redacted,
                   shown, new_col, analyzer_calls, row_iter, ls_tasks, error>>

\* lines 255-256
NoEntitiesSelected ==
    /\ pc = "read"
    /\ text # <<>>
    /\ selected_entities = {}
    /\ shown' = shown \cup {"info_select_entity"}
    /\ pc' = "done"
    /\ UNCHANGED <<file_type, df, redaction_text, selected_entities, text,
                   orig_index_nonnull, candidates, raw_results, results, redacted,
                   new_col, analyzer_calls, row_iter, ls_tasks, error>>

\* lines 77-84: analyzer.analyze on the whole text
Analyze ==
    /\ pc = "read"
    /\ text # <<>>
    /\ selected_entities # {}
    /\ \E q \in DetectorOutputs(text, selected_entities) :
        /\ candidates' = q
        /\ raw_results' = RemoveLowScores(q)
        /\ analyzer_calls' = {[text |-> text, out |-> RemoveLowScores(q)]}
    /\ pc' = "analyzed"
    /\ UNCHANGED <<file_type, df, redaction_text, selected_entities, text,
                   orig_index_nonnull, results, redacted, shown, new_col,
                   row_iter, ls_tasks, error>>

\* lines 79-84 when the detection engine fails to respond
AnalyzeRaises ==
    /\ pc = "read"
    /\ text # <<>>
    /\ selected_entities # {}
    /\ error' = "DetectorUnavailableError"
    /\ pc' = "raised"
    /\ UNCHANGED <<file_type, df, redaction_text, selected_entities, text,
                   orig_index_nonnull, candidates, raw_results, results, redacted,
                   shown, new_col, analyzer_calls, row_iter, ls_tasks>>

\* lines 86-100
FilterResults ==
    /\ pc = "analyzed"
    /\ results' = FilterExcluded(text, raw_results)
    /\ pc' = "filtered"
    /\ UNCHANGED <<file_type, df, redaction_text, selected_entities, text,
                   orig_index_nonnull, candidates, raw_results, redacted, shown,
                   new_col, analyzer_calls, row_iter, ls_tasks, error>>

\* lines 103-110
AnonymizeText ==
    /\ pc = "filtered"
    /\ redacted' = Anonymize(text, results, redaction_text)
    /\ candidates' = <<>>
    /\ pc' = "anonymized"
    /\ UNCHANGED <<file_type, df, redaction_text, selected_entities, text,
                   orig_index_nonnull, raw_results, results, shown, new_col,
                   analyzer_calls, row_iter, ls_tasks, error>>

\* lines 112-140: success message, preview, analysis table and downloads
ShowPreview ==
    /\ pc = "anonymized"
    /\ shown' = shown \cup {"success", "preview"} \cup
                (IF results = <<>> THEN {"info_no_entities"}
                 ELSE {"analysis_table", "analysis_csv", "analysis_json"})
    /\ pc' = "previewed"
    /\ UNCHANGED <<file_type, df, redaction_text, selected_entities, text,
                   orig_index_nonnull, candidates, raw_results, results, redacted,
                   new_col, analyzer_calls, row_iter, ls_tasks, error>>

\* lines 143-149
DownloadTxt ==
    /\ pc = "previewed"
    /\ file_type = "txt"
    /\ shown' = shown \cup {"redacted_txt"}
    /\ pc' = "export"
    /\ UNCHANGED <<file_type, df, redaction_text, selected_entities, text,
                   orig_index_nonnull, candidates, raw_results, results, redacted,
                   new_col, analyzer_calls, row_iter, ls_tasks, error>>

\* the warning of lines 157-158
MismatchWarning(parts, index) ==
    IF Len(parts) # Len(index) THEN {"warning_alignment"} ELSE {}

\* lines 151-176 when the assignment of line 163 succeeds
SplitBack ==
    /\ pc = "previewed"
    /\ file_type = "xlsx"
    /\ LET redacted_rows == SplitLines(redacted)
           values == Truncate(redacted_rows, Len(orig_index_nonnull))
       IN  /\ ~AssignRaises(orig_index_nonnull, values)
           /\ new_col' = AssignRows(Len(df), orig_index_nonnull, values)
           /\ shown' = shown \cup MismatchWarning(redacted_rows, orig_index_nonnull)
                             \cup {"redacted_xlsx"}
    /\ pc' = "export"
    /\ UNCHANGED <<file_type, df, redaction_text, selected_entities, text,
                   orig_index_nonnull, candidates, raw_results, results, redacted,
                   analyzer_calls, row_iter, ls_tasks, error>>

\* lines 151-163 when the assignment of line 163 raises
SplitBackRaises ==
    /\ pc = "previewed"
    /\ file_type = "xlsx"
    /\ LET redacted_rows == SplitLines(redacted)
           values == Truncate(redacted_rows, Len(orig_index_nonnull))
       IN  /\ AssignRaises(orig_index_nonnull, values)
           /\ shown' = shown \cup MismatchWarning(redacted_rows, orig_index_nonnull)
    /\ error' = "ValueError"
    /\ pc' = "raised"
    /\ UNCHANGED <<file_type, df, redaction_text, selected_entities, text,
                   orig_index_nonnull, candidates, raw_results, results, redacted,
                   new_col, analyzer_calls, row_iter, ls_tasks>>

\* the row the export loop visits next (lines 218-219)
NextRowLabel == orig_index_nonnull[row_iter + 1]
NextRowText == df[NextRowLabel + 1].val

AfterRow == IF row_iter + 1 = Len(orig_index_nonnull) THEN "tasks_built" ELSE "export"

\* lines 219-221: a blank row is skipped
ExportRowSkip ==
    /\ pc = "export"
    /\ file_type = "xlsx"
    /\ ~RowHasTask(NextRowText)
    /\ row_iter' = row_iter + 1
    /\ pc' = AfterRow
    /\ UNCHANGED <<file_type, df, redaction_text, selected_entities, text,
                   orig_index_nonnull, candidates, raw_results, results, redacted,
                   shown, new_col, analyzer_calls, ls_tasks, error>>

\* lines 219-234: one task for the row, from a fresh analyzer call on its text
ExportRowTask ==
    /\ pc = "export"
    /\ file_type = "xlsx"
    /\ RowHasTask(NextRowText)
    /\ \E seg_raw \in AnalyzerAnswers(NextRowText, selected_entities, analyzer_calls) :
        /\ analyzer_calls' = analyzer_calls \cup {[text |-> NextRowText, out |-> seg_raw]}
        /\ ls_tasks' = Append(ls_tasks,
                              [text |-> NextRowText,
                               row_index |-> NextRowLabel,
                               result |-> PresidioToLsResults(NextRowText, seg_raw)])
    /\ row_iter' = row_iter + 1
    /\ pc' = AfterRow
    /\ UNCHANGED <<file_type, df, redaction_text, selected_entities, text,
                   orig_index_nonnull, candidates, raw_results, results, redacted,
                   shown, new_col, error>>

\* lines 235-244: a single task with the full text
ExportTxtTask ==
    /\ pc = "export"
    /\ file_type = "txt"
    /\ \E seg_raw \in AnalyzerAnswers(text, selected_entities, analyzer_calls) :
        /\ analyzer_calls' = analyzer_calls \cup {[text |-> text, out |-> seg_raw]}
        /\ ls_tasks' = Append(ls_tasks,
                              [text |-> text,
                               row_index |-> NoRow,
                               result |-> PresidioToLsResults(text, seg_raw)])
    /\ pc' = "tasks_built"
    /\ UNCHANGED <<file_type, df, redaction_text, selected_entities, text,
                   orig_index_nonnull, candidates, raw_results, results, redacted,
                   shown, new_col, row_iter, error>>

\* line 181 when the detection engine fails to respond during the export
ExportAnalyzeRaises ==
    /\ pc = "export"
    /\ IF file_type = "txt" THEN TRUE ELSE RowHasTask(NextRowText)
    /\ error' = "DetectorUnavailableError"
    /\ pc' = "raised"
    /\ UNCHANGED <<file_type, df, redaction_text, selected_entities, text,
                   orig_index_nonnull, candidates, raw_results, results, redacted,
                   shown, new_col, analyzer_calls, row_iter, ls_tasks>>

\* lines 246-253
ExportDownload ==
    /\ pc = "tasks_built"
    /\ shown' = shown \cup {"labelstudio_json"}
    /\ pc' = "done"
    /\ UNCHANGED <<file_type, df, redaction_text, selected_entities, text,
                   orig_index_nonnull, candidates, raw_results, results, redacted,
                   new_col, analyzer_calls, row_iter, ls_tasks, error>>

Next ==
    \/ ReadFile
    \/ NothingToProcess
    \/ NoEntitiesSelected
    \/ Analyze
    \/ AnalyzeRaises
    \/ FilterResults
    \/ AnonymizeText
    \/ ShowPreview
    \/ DownloadTxt
    \/ SplitBack
    \/ SplitBackRaises
    \/ ExportRowSkip
    \/ ExportRowTask
    \/ ExportTxtTask
    \/ ExportAnalyzeRaises
    \/ ExportDownload

Spec == Init /\ [][Next]_vars


(***************************************************************************)
(* Vocabulary of the properties.                                           *)
(***************************************************************************)
Range(q) == {q[i] : i \in 1..Len(q)}

\* sub lists members of full in the order full has them
InOrderOf(sub, full) ==
    \A i, j \in 1..Len(sub) :
        i < j => \E a, b \in 1..Len(full) : a < b /\ full[a] = sub[i] /\ full[b] = sub[j]

\* the run got past anonymizer.anonymize (line 110)
PastAnonymize == pc = "anonymized" \/ "success" \in shown

\* the run got to the split-back block (line 151) and left it, one way or the other
SplitReached ==
    /\ file_type = "xlsx"
    /\ "success" \in shown
    /\ pc \in {"export", "tasks_built", "done", "raised"}

\* the export tasks are complete (line 246 reached)
TasksBuilt == pc = "tasks_built" \/ "labelstudio_json" \in shown

OutputArtifacts ==
    {"success", "preview", "analysis_table", "analysis_csv", "analysis_json",
     "redacted_txt", "redacted_xlsx", "labelstudio_json"}

NoCellHasNewline == \A r \in 1..Len(df) : NL \notin Chars(df[r].val)

Overlapping(rs) == \E i, j \in 1..Len(rs) : i # j /\ Intersects(rs[i], rs[j])

\* offset of joined segment i in text
RECURSIVE SegmentStart(_)
SegmentStart(i) ==
    IF i = 1 THEN 0
    ELSE SegmentStart(i - 1) + Len(df[orig_index_nonnull[i - 1] + 1].val) + 1

SegmentEnd(i) == SegmentStart(i) + Len(df[orig_index_nonnull[i] + 1].val)

\* the surviving detections lying in segment i, as offsets into that row's text
RowDetections(i) ==
    LET inside == SelectSeq(results, LAMBDA d :
                      SegmentStart(i) <= d.start /\ d.end <= SegmentEnd(i))
    IN  [k \in 1..Len(inside) |->
            [inside[k] EXCEPT !.start = inside[k].start - SegmentStart(i),
                              !.end = inside[k].end - SegmentStart(i)]]

Span(d) == [label |-> d.entity_type, start |-> d.start, end |-> d.end]
LsSpan(x) == [label |-> x.label, start |-> x.start, end |-> x.end]

(***************************************************************************)
(* C1.  A row-alignment mismatch is not fatal.                             *)
(***************************************************************************)
\* C1: whenever the redacted text splits into a number of parts other than
\* the number of non-null rows, the warning is shown, the assignment still
\* completes and the redacted sheet is offered; the step never raises.
C1_MismatchNonFatal ==
    (SplitReached /\ Len(SplitLines(redacted)) # Len(orig_index_nonnull))
        => /\ "warning_alignment" \in shown
           /\ error # "ValueError"
           /\ "redacted_xlsx" \in shown
           /\ Len(new_col) = Len(df)

\* C1, the half that holds: with more parts than rows the warning is shown,
\* the surplus parts are cut off and the sheet is offered.
C1_TooManyPartsNonFatal ==
    (SplitReached /\ Len(SplitLines(redacted)) > Len(orig_index_nonnull))
        => /\ "warning_alignment" \in shown
           /\ error # "ValueError"
           /\ "redacted_xlsx" \in shown
           /\ Len(new_col) = Len(df)

\* C1, the half that fails: with fewer parts than rows line 163 raises.
C1_TooFewPartsRaises ==
    (SplitReached /\ Len(SplitLines(redacted)) < Len(orig_index_nonnull))
        => error = "ValueError" /\ "redacted_xlsx" \notin shown

(***************************************************************************)
(* C2.  The redacted column of a sheet without embedded newlines.          *)
(***************************************************************************)
\* C2: for a sheet whose cells hold no newline, once the split-back block
\* has run the new column has one entry per input row, "" on every null row,
\* and on the row of alignment[i] the redaction of the i-th non-null cell
\* itself, whatever the replacement text and the detections.
C2_RedactedColumn ==
    (SplitReached /\ NoCellHasNewline)
        => /\ error # "ValueError"
           /\ Len(new_col) = Len(df)
           /\ \A r \in 1..Len(df) : df[r].isna => new_col[r] = <<>>
           /\ \A i \in 1..Len(orig_index_nonnull) :
                 new_col[orig_index_nonnull[i] + 1] =
                     Anonymize(df[orig_index_nonnull[i] + 1].val, RowDetections(i),
                               redaction_text)

\* C2 on the runs where line 163 does not raise: the column is as claimed.
C2_RedactedColumnWhenAssigned ==
    (SplitReached /\ NoCellHasNewline /\ error # "ValueError")
        => /\ Len(new_col) = Len(df)
           /\ \A r \in 1..Len(df) : df[r].isna => new_col[r] = <<>>
           /\ \A i \in 1..Len(orig_index_nonnull) :
                 new_col[orig_index_nonnull[i] + 1] =
                     Anonymize(df[orig_index_nonnull[i] + 1].val, RowDetections(i),
                               redaction_text)

(***************************************************************************)
(* C3.  Confidence floors.                                                 *)
(***************************************************************************)
\* C3 as stated: a detection that is not on the exclusion list is kept if and
\* only if its score is at or above the floor of its own type, PERSON 0.85
\* and LOCATION 0.60.
C3_PerTypeFloors ==
    pc = "filtered" =>
        \A d \in Range(candidates) :
            ~IsExcluded(text, d) =>
                (d \in Range(results)
                    <=> d.score >= (IF d.entity_type = "LOCATION" THEN 60 ELSE 85))

\* C3 amended: there is one floor, 0.85, for every entity type: the analyzer
\* returns, in order, exactly the detections scoring at least 0.85, in the
\* main pipeline and in the export, so that PERSON 0.5 and LOCATION 0.65 are
\* dropped and PERSON 0.9 is kept.
C3_GlobalFloor ==
    /\ pc \in {"analyzed", "filtered"} =>
          /\ \A d \in Range(candidates) : d \in Range(raw_results) <=> d.score >= 85
          /\ Len(raw_results) = Cardinality(Range(raw_results))
          /\ InOrderOf(raw_results, candidates)
    /\ pc = "filtered" =>
          \A d \in Range(candidates) :
              ~IsExcluded(text, d) => (d \in Range(results) <=> d.score >= 85)
    /\ \A i \in 1..Len(ls_tasks) :
          \A k \in 1..Len(ls_tasks[i].result) : ls_tasks[i].result[k].score >= 85

\* a LOCATION at 0.65 was dropped and a PERSON at 0.9 kept
C3_Witness ==
    /\ pc = "filtered"
    /\ \E d \in Range(candidates) :
          d.entity_type = "LOCATION" /\ d.score = 65 /\ ~IsExcluded(text, d)
          /\ d \notin Range(results)
    /\ \E d \in Range(candidates) :
          d.entity_type = "PERSON" /\ d.score = 90 /\ d \in Range(results)

(***************************************************************************)
(* C4.  All-or-nothing output.                                             *)
(***************************************************************************)
\* C4: a run that raises has shown no output artifact.
C4_AllOrNothing == pc = "raised" => shown \cap OutputArtifacts = {}

(***************************************************************************)
(* C5.  Malformed detections are fatal.                                    *)
(***************************************************************************)
\* C5: when two surviving detections share a character the request is
\* aborted before redacted text is produced or shown.
C5_MalformedFatal ==
    Overlapping(results) => ~PastAnonymize /\ "preview" \notin shown

(***************************************************************************)
(* C6.  The exclusion list.                                                *)
(***************************************************************************)
\* C6 as stated: every detection whose text, lower-cased and trimmed, is an
\* exclusion word is dropped, and every other detection is kept.
C6_TrimmedMatch ==
    pc = "filtered" =>
        \A d \in Range(raw_results) :
            d \in Range(results)
                <=> strip(lower(Slice(text, d.start, d.end))) \notin EXCLUDE_WORDS

\* C6 amended: matching is case-insensitive but not trimmed: a detection is
\* dropped exactly when its text, lower-cased, is an exclusion word; the
\* others are kept in order, in the main pipeline and in every export task.
C6_LowerOnlyMatch ==
    /\ pc = "filtered" =>
          /\ \A d \in Range(raw_results) :
                d \in Range(results)
                    <=> lower(Slice(text, d.start, d.end)) \notin EXCLUDE_WORDS
          /\ InOrderOf(results, raw_results)
          /\ Len(results) = Cardinality(Range(results))
    /\ \A i \in 1..Len(ls_tasks) :
          LET t == ls_tasks[i].text
              answer == (CHOOSE c \in analyzer_calls : c.text = t).out
              kept == {Span(d) : d \in {x \in Range(answer) :
                          lower(Slice(t, x.start, x.end)) \notin EXCLUDE_WORDS}}
          IN  /\ {LsSpan(x) : x \in Range(ls_tasks[i].result)} = kept
              /\ Len(ls_tasks[i].result) = Cardinality(kept)

\* "Us" was dropped for matching "us", and a detection with a space at its
\* edge stayed
C6_Witness ==
    /\ pc = "filtered"
    /\ \E d \in Range(raw_results) :
          Slice(text, d.start, d.end) = <<"U", "s">> /\ d \notin Range(results)
    /\ \E d \in Range(raw_results) :
          /\ strip(lower(Slice(text, d.start, d.end))) \in EXCLUDE_WORDS
          /\ d \in Range(results)

(***************************************************************************)
(* C7.  Row round trip.                                                    *)
(***************************************************************************)
\* join then split of a column, with nothing redacted in between
RoundTrip(cells) ==
    LET index == NonNullIndex(cells, 0)
        parts == SplitLines(JoinRows(cells))
    IN  [index |-> index,
         parts |-> parts,
         raises |-> AssignRaises(index, Truncate(parts, Len(index))),
         rows |-> AssignRows(Len(cells), index, Truncate(parts, Len(index)))]

RoundTripRestores(cells) ==
    LET rt == RoundTrip(cells)
    IN  /\ ~rt.raises
        /\ Len(rt.rows) = Len(cells)
        /\ \A r \in 1..Len(cells) :
              IF cells[r].isna THEN rt.rows[r] = <<>> ELSE rt.rows[r] # <<>>
        /\ \A i \in 1..Len(rt.index) :
              /\ ~cells[rt.index[i] + 1].isna
              /\ \A j \in 1..Len(rt.index) : i < j => rt.index[i] < rt.index[j]
        /\ Len(rt.index) = Cardinality({r \in 1..Len(cells) : ~cells[r].isna})

TaskData(i) == [text |-> ls_tasks[i].text, row_index |-> ls_tasks[i].row_index]

NonBlankRows ==
    SelectSeq(orig_index_nonnull, LAMBDA l :
        \E k \in 1..Len(df[l + 1].val) : ~IsSpace(df[l + 1].val[k]))

Glued(rs, t) ==
    \E i, j \in 1..Len(rs) :
        /\ i # j
        /\ rs[i].entity_type = rs[j].entity_type
        /\ rs[i].end <= rs[j].start
        /\ OnlySpaces(Slice(t, rs[i].end, rs[j].start))

\* the text with every span of rs, taken left to right, replaced by repl
RECURSIVE Rebuild(_, _, _, _)
Rebuild(t, rs, from, repl) ==
    IF rs = {} THEN Slice(t, from, Len(t))
    ELSE LET d == CHOOSE x \in rs : \A y \in rs : x.start <= y.start
         IN  Slice(t, from, d.start) \o repl \o Rebuild(t, rs \ {d}, d.end, repl)

C10_ExportMatchesRedaction ==
    (TasksBuilt /\ file_type = "xlsx") =>
        /\ \A i \in 1..Len(orig_index_nonnull) :
              RowDetections(i) # <<>> =>
                  \E k \in 1..Len(ls_tasks) : ls_tasks[k].row_index = orig_index_nonnull[i]
        /\ \A k \in 1..Len(ls_tasks) :
              LET i == CHOOSE x \in 1..Len(orig_index_nonnull) :
                          orig_index_nonnull[x] = ls_tasks[k].row_index
              IN  {LsSpan(x) : x \in Range(ls_tasks[k].result)}
                      = {Span(d) : d \in Range(RowDetections(i))}


====
